---- MODULE Spec2Model ----
(***************************************************************************)
(* Semantic retrieval subsystem of employee-report-analysis:               *)
(* chunk_text, the Vector Index provider (QdrantProvider), the Mapping     *)
(* Store (qdrant_mappings) and the Retrieval Service                        *)
(* (app/services/vector_store_service.py).                                  *)
(***************************************************************************)
EXTENDS Integers, Sequences, FiniteSets, TLC

VARIABLES
    collection,   \* the backend collection COLLECTION_NAME: [exists, size]
    points,       \* Vector Index: point id -> [vector, payload]
    mappings,     \* Mapping Store: rows [qdrant_id, report_id, chunk_index]
    nextId,       \* uuid4(): the next fresh point id
    ing,          \* the add_report_to_vector_store call in progress / last finished
    okIds,        \* history: point ids whose add_document returned True
    failedIds,    \* history: point ids whose add_document returned False
    mappedIds,    \* history: point ids whose store_mapping returned True
    sr,           \* the last search_reports call: inputs, backend answer, result
    gc,           \* the last get_report_chunks call: inputs, rows read, result
    qp,           \* QdrantProvider's class variables, the backend handles, history
    ctor,         \* per thread: its QdrantProvider(...) request in progress / last
    su,           \* per thread: its provider setup_collection call in progress / last
    sh,           \* history of setup_collection: creations, last completed call
    pr,           \* per thread: its add_report_to_vector_store call, run concurrently
    probes,       \* history: number of times the probe string was embedded
    dl,           \* the last delete_document by filter and its verify_deletion
    llm,          \* the LLMService.generate_text call in progress / last finished
    ck            \* the chunk_text call in progress / last finished

\* the variables of the operations next to Ingest and Search
getVars == <<gc>>

providerVars == <<qp, ctor>>

setupVars == <<su, sh>>

pairVars == <<pr, probes>>

\* the variables of the operations modelled after setup_collection
deleteVars == <<dl>>

llmVars == <<llm>>

lateVars == <<pairVars, deleteVars, llmVars>>

extVars == <<getVars, providerVars, setupVars, lateVars>>

vars == <<collection, points, mappings, nextId, ing, okIds, failedIds, mappedIds, sr, extVars, ck>>

retrievalVars == <<collection, points, mappings, nextId, ing, okIds, failedIds, mappedIds, sr, extVars>>

----------------------------------------------------------------------------
(* Bounds *)

MaxTextLen == 4        \* longest text given to chunk_text
MaxM == 3              \* largest max_chunk_size given to chunk_text
MaxChunkSize == 2      \* the default max_chunk_size used by Ingest, scaled down
MaxIds == 2            \* number of uuid4 values drawn
MaxLimit == 2          \* largest top_k
MaxScore == 1          \* similarity scores are 0..MaxScore
MaxAttempts == 3       \* number of QdrantProvider(...) construction requests
MaxSetupCalls == 4     \* number of provider setup_collection calls
MaxPairIds == 4        \* number of uuid4 values two concurrent calls draw
MaxRetries == 3        \* largest retries argument and max_retries attribute

----------------------------------------------------------------------------
(* Text: a str is a sequence of characters; None stands for a non-str      *)
(* argument (it is no sequence over Alphabet).                              *)

Alphabet == {"a", ".", " "}

Whitespace == {" "}

None == <<"None">>

RECURSIVE SeqsUpTo(_, _)
SeqsUpTo(S, n) ==
    IF n = 0 THEN {<<>>}
    ELSE LET shorter == SeqsUpTo(S, n - 1)
         IN  shorter \cup {Append(s, c) : s \in {t \in shorter : Len(t) = n - 1}, c \in S}

Texts == SeqsUpTo(Alphabet, MaxTextLen)

\* str.strip(): drop leading and trailing whitespace
RECURSIVE lstrip(_)
lstrip(s) ==
    IF s # <<>> /\ Head(s) \in Whitespace THEN lstrip(Tail(s)) ELSE s

RECURSIVE rstrip(_)
rstrip(s) ==
    IF s # <<>> /\ s[Len(s)] \in Whitespace THEN rstrip(SubSeq(s, 1, Len(s) - 1)) ELSE s

strip(s) == rstrip(lstrip(s))

\* Python slices s[:n] and s[n:] (0-based n >= 0)
SliceTo(s, n) == SubSeq(s, 1, IF n < Len(s) THEN n ELSE Len(s))

SliceFrom(s, n) == SubSeq(s, n + 1, Len(s))

\* str.find("."): 0-based index of the first ".", or -1
find(s) ==
    LET hits == {i \in 1..Len(s) : s[i] = "."}
    IN  IF hits = {} THEN -1
        ELSE (CHOOSE i \in hits : \A j \in hits : i <= j) - 1

\* str.rfind("."): 0-based index of the last ".", or -1
rfind(s) ==
    LET hits == {i \in 1..Len(s) : s[i] = "."}
    IN  IF hits = {} THEN -1
        ELSE (CHOOSE i \in hits : \A j \in hits : j <= i) - 1

\* the index chunk_text splits at (lines 32-34)
split_index(text, max_chunk_size) ==
    LET found == rfind(SliceTo(text, max_chunk_size))
    IN  IF found = -1 THEN max_chunk_size ELSE found

\* the chunk one loop iteration emits (line 35)
IterChunk(text, max_chunk_size) ==
    strip(SliceTo(text, split_index(text, max_chunk_size) + 1))

\* a continuation that starts at the split index itself
IterRestFromSplit(text, max_chunk_size) ==
    strip(SliceFrom(text, split_index(text, max_chunk_size)))

\* a continuation that starts one character late
IterRestSkipping(text, max_chunk_size) ==
    strip(SliceFrom(text, split_index(text, max_chunk_size) + 2))

\* the text one loop iteration continues with (line 36)
IterRest(text, max_chunk_size) ==
    strip(SliceFrom(text, split_index(text, max_chunk_size) + 1))

RECURSIVE chunk_loop(_, _, _)
chunk_loop(text, max_chunk_size, chunks) ==
    IF Len(text) > max_chunk_size
    THEN chunk_loop(IterRest(text, max_chunk_size), max_chunk_size,
                    Append(chunks, IterChunk(text, max_chunk_size)))
    ELSE IF text # <<>> THEN Append(chunks, text) ELSE chunks

chunk_text(text, max_chunk_size) ==
    IF text = None \/ text = <<>> THEN <<>>
    ELSE chunk_loop(text, max_chunk_size, <<>>)

----------------------------------------------------------------------------
(* chunk_text as a process: one step per loop iteration                     *)

CkIdle == [pc |-> "idle", input |-> <<>>, max |-> 1, text |-> <<>>,
           chunks |-> <<>>, iters |-> 0, noDot |-> FALSE]

ChunkCall ==
    /\ ck.pc \in {"idle", "returned"}
    /\ \E text \in Texts \cup {None}, m \in 1..MaxM :
         ck' = IF text = None \/ text = <<>>
               THEN [pc |-> "returned", input |-> text, max |-> m, text |-> <<>>,
                     chunks |-> <<>>, iters |-> 0, noDot |-> FALSE]
               ELSE [pc |-> "loop", input |-> text, max |-> m, text |-> text,
                     chunks |-> <<>>, iters |-> 0, noDot |-> FALSE]
    /\ UNCHANGED retrievalVars

ChunkIter ==
    /\ ck.pc = "loop"
    /\ Len(ck.text) > ck.max
    /\ ck' = [ck EXCEPT !.chunks = Append(@, IterChunk(ck.text, ck.max)),
                        !.text = IterRest(ck.text, ck.max),
                        !.iters = @ + 1,
                        !.noDot = @ \/ rfind(SliceTo(ck.text, ck.max)) = -1]
    /\ UNCHANGED retrievalVars

ChunkReturn ==
    /\ ck.pc = "loop"
    /\ Len(ck.text) <= ck.max
    /\ ck' = [ck EXCEPT !.pc = "returned",
                        !.chunks = IF ck.text # <<>> THEN Append(@, ck.text) ELSE @]
    /\ UNCHANGED retrievalVars

----------------------------------------------------------------------------
(* Inputs of the Retrieval Service                                          *)

Emps == {41, 42}

\* the documents callers hand to add_report_to_vector_store: (report_id,
\* employee_id, report_date, report_text). A report_date string "YYYY-MM-DD"
\* is <<year, month, day>>; <<2025, 13, 1>> is a string strptime rejects
Documents ==
    { [report_id |-> "r1", employee_id |-> 41, report_date |-> <<2025, 3, 15>>,
       report_text |-> <<"a", ".", "a">>],
      [report_id |-> "r2", employee_id |-> 41, report_date |-> <<1899, 12, 31>>,
       report_text |-> <<"a", ".">>],
      [report_id |-> "r3", employee_id |-> 41, report_date |-> <<2025, 13, 1>>,
       report_text |-> <<"a", ".">>],
      [report_id |-> "r4", employee_id |-> 42, report_date |-> <<2025, 3, 15>>,
       report_text |-> <<"a", ".">>],
      [report_id |-> "r5", employee_id |-> 42, report_date |-> <<2025, 3, 15>>,
       report_text |-> <<>>] }

Scores == 0..MaxScore

\* the embedding provider's vector length; 0 is the empty list get_embedding
\* returns when the provider fails
EmbeddingDim == 2

EmbeddingOutcomes == {0, EmbeddingDim}

----------------------------------------------------------------------------
(* Vector Index provider (QdrantProvider) over the backend client           *)

NoCollection == [exists |-> FALSE, size |-> 0]

\* client.create_collection raises when the backend fails (createOk = FALSE)
\* or rejects the vector size, which it requires to be at least 1
CreateAccepted(vector_size, createOk) ==
    /\ createOk
    /\ vector_size >= 1

\* QdrantProvider.setup_collection: listOk / createOk are the outcomes of
\* client.get_collections and client.create_collection
provider_setup_collection(coll, vector_size, listOk, createOk) ==
    IF ~listOk THEN [ok |-> FALSE, collection |-> coll]
    ELSE IF ~coll.exists
         THEN IF CreateAccepted(vector_size, createOk)
              THEN [ok |-> TRUE, collection |-> [exists |-> TRUE, size |-> vector_size]]
              ELSE [ok |-> FALSE, collection |-> coll]
         ELSE [ok |-> TRUE, collection |-> coll]

\* client.upsert raises when the collection is absent, the vector has the
\* wrong length, or the backend fails (backendOk = FALSE)
UpsertAccepted(coll, vector, backendOk) ==
    /\ backendOk
    /\ coll.exists
    /\ vector = coll.size

\* QdrantProvider.add_document: [ok, points']
add_document(pts, coll, document_id, vector, payload, backendOk) ==
    IF UpsertAccepted(coll, vector, backendOk)
    THEN [ok |-> TRUE,
          points |-> [i \in DOMAIN pts \cup {document_id} |->
                        IF i = document_id THEN [vector |-> vector, payload |-> payload]
                        ELSE pts[i]]]
    ELSE [ok |-> FALSE, points |-> pts]

----------------------------------------------------------------------------
(* Mapping Store (qdrant_mappings, primary key qdrant_id)                   *)

MappingRow(document_id, report_id, chunk_index) ==
    [qdrant_id |-> document_id, report_id |-> report_id, chunk_index |-> chunk_index]

\* the INSERT fails on a primary-key clash or when the database fails
InsertAccepted(rows, document_id, dbOk) ==
    /\ dbOk
    /\ \A r \in rows : r.qdrant_id # document_id

\* store_mapping that reports success without the row being committed
store_mapping_uncommitted(rows, document_id, report_id, chunk_index, sessionOk, dbOk) ==
    IF ~sessionOk THEN [raised |-> TRUE, ret |-> FALSE, mappings |-> rows]
    ELSE [raised |-> FALSE, ret |-> InsertAccepted(rows, document_id, dbOk),
          mappings |-> rows]

\* store_mapping: outcome "raise" is get_database() / create_session()
\* raising before the try block is entered; otherwise [ret, mappings']
store_mapping(rows, document_id, report_id, chunk_index, sessionOk, dbOk) ==
    IF ~sessionOk THEN [raised |-> TRUE, ret |-> FALSE, mappings |-> rows]
    ELSE IF InsertAccepted(rows, document_id, dbOk)
         THEN [raised |-> FALSE, ret |-> TRUE,
               mappings |-> rows \cup {MappingRow(document_id, report_id, chunk_index)}]
         ELSE [raised |-> FALSE, ret |-> FALSE, mappings |-> rows]

----------------------------------------------------------------------------
(* Ingest: add_report_to_vector_store, one step per call the loop makes     *)

IngIdle == [pc |-> "idle", report_id |-> "r1", employee_id |-> 41,
            report_date |-> <<2025, 3, 15>>, chunks |-> <<>>, idx |-> 0,
            document_id |-> 0, embedding |-> 0, setup |-> "none", ret |-> "none",
            log |-> <<>>, prePoints |-> <<>>, preMappings |-> {}]

SrIdle == [called |-> FALSE]

GcIdle == [called |-> FALSE]

\* service-level setup_collection (lines 47-55): get_embedding_size() is the
\* length of the probe embedding; any exception gives False
setup_collection(coll, storeOk, probe, listOk, createOk) ==
    IF ~storeOk THEN [ok |-> FALSE, collection |-> coll]
    ELSE provider_setup_collection(coll, probe, listOk, createOk)

\* line 120: the mapping is written only `if success`
ShouldStoreMappingAlways(success) == TRUE

ShouldStoreMapping(success) == success

\* line 89: `if not setup_collection(): return False`
AbortOnSetupNever(setupOk) == FALSE

AbortOnSetupFailure(setupOk) == ~setupOk

\* the loop's next position after chunk idx
AfterChunk(idx, chunks) == IF idx + 1 < Len(chunks) THEN "embed" ELSE "done"

\* a payload that carries the first chunk's text for every chunk
PayloadFirstChunk(c) ==
    [report_id |-> c.report_id, employee_id |-> c.employee_id, chunk_index |-> c.idx,
     report_date |-> c.report_date, text |-> c.chunks[1]]

\* lines 104-110
Payload(c) ==
    [report_id |-> c.report_id, employee_id |-> c.employee_id, chunk_index |-> c.idx,
     report_date |-> c.report_date, text |-> c.chunks[c.idx + 1]]

\* the call has returned: its locals are gone, its history is kept
Returned(c, setup, ret) ==
    [IngIdle EXCEPT !.report_id = c.report_id,
                    !.setup = setup, !.ret = ret, !.chunks = c.chunks, !.log = c.log,
                    !.prePoints = c.prePoints, !.preMappings = c.preMappings]

\* lines 84-94: obtain the store, set up the collection, chunk the text
IngestCall ==
    /\ ing.pc = "idle"
    /\ ~sr.called
    /\ ~gc.called
    /\ ~dl.called
    /\ \E doc \in Documents, storeOk \in BOOLEAN, probe \in EmbeddingOutcomes,
          listOk \in BOOLEAN, createOk \in BOOLEAN :
         LET setup == setup_collection(collection, storeOk, probe, listOk, createOk)
             chunks == chunk_text(doc.report_text, MaxChunkSize)
             call == [IngIdle EXCEPT !.report_id = doc.report_id,
                                     !.employee_id = doc.employee_id,
                                     !.report_date = doc.report_date,
                                     !.prePoints = points, !.preMappings = mappings]
         IN  /\ nextId + Len(chunks) <= MaxIds + 1
             \* outcomes that are never consulted are fixed
             /\ ~storeOk => probe = 0 /\ listOk
             /\ (~listOk \/ collection.exists) => createOk
             /\ collection' = setup.collection
             /\ ing' = IF ~storeOk
                       THEN Returned(call, "no_store", "false")
                       ELSE IF AbortOnSetupFailure(setup.ok)
                       THEN Returned(call, "failed", "false")
                       ELSE [call EXCEPT !.setup = IF setup.ok THEN "ok" ELSE "failed",
                                         !.chunks = chunks,
                                         !.pc = IF chunks = <<>> THEN "done" ELSE "embed"]
    /\ UNCHANGED <<points, mappings, nextId, okIds, failedIds, mappedIds, sr, extVars, ck>>

\* lines 97-101: a fresh uuid4 and the chunk's embedding
IngestEmbed ==
    /\ ing.pc = "embed"
    /\ \E embedding \in EmbeddingOutcomes :
         ing' = [ing EXCEPT !.pc = "upsert", !.document_id = nextId,
                            !.embedding = embedding,
                            !.log = Append(@, <<"embed", ing.idx>>)]
    /\ nextId' = nextId + 1
    /\ UNCHANGED <<collection, points, mappings, okIds, failedIds, mappedIds, sr, extVars, ck>>

\* lines 103-120: build the payload and upsert the point
IngestUpsert ==
    /\ ing.pc = "upsert"
    /\ \E backendOk \in BOOLEAN :
         LET res == add_document(points, collection, ing.document_id, ing.embedding,
                                 Payload(ing), backendOk)
         IN  /\ points' = res.points
             /\ okIds' = IF res.ok THEN okIds \cup {ing.document_id} ELSE okIds
             /\ failedIds' = IF res.ok THEN failedIds ELSE failedIds \cup {ing.document_id}
             /\ ing' = IF ShouldStoreMapping(res.ok)
                       THEN [ing EXCEPT !.pc = "map",
                                        !.log = Append(@, <<"upsert", ing.idx>>)]
                       ELSE [ing EXCEPT !.pc = AfterChunk(ing.idx, ing.chunks),
                                        !.idx = @ + 1,
                                        !.log = Append(@, <<"upsert", ing.idx>>)]
    /\ UNCHANGED <<collection, mappings, nextId, mappedIds, sr, extVars, ck>>

\* lines 121-126: store_mapping; an exception it lets through is caught at
\* line 130 and ends the call with False
IngestMap ==
    /\ ing.pc = "map"
    /\ \E sessionOk \in BOOLEAN, dbOk \in BOOLEAN :
         LET res == store_mapping(mappings, ing.document_id, ing.report_id, ing.idx,
                                  sessionOk, dbOk)
         IN  /\ mappings' = res.mappings
             /\ mappedIds' = IF res.ret THEN mappedIds \cup {ing.document_id} ELSE mappedIds
             /\ ing' = IF res.raised
                       THEN Returned([ing EXCEPT !.log = Append(@, <<"map", ing.idx>>)],
                                     ing.setup, "false")
                       ELSE [ing EXCEPT !.pc = AfterChunk(ing.idx, ing.chunks),
                                        !.idx = @ + 1,
                                        !.log = Append(@, <<"map", ing.idx>>)]
    /\ UNCHANGED <<collection, points, nextId, okIds, failedIds, sr, extVars, ck>>

\* lines 128-129: the loop is over
IngestReturn ==
    /\ ing.pc = "done"
    /\ ing' = Returned(ing, ing.setup, "true")
    /\ UNCHANGED <<collection, points, mappings, nextId, okIds, failedIds, mappedIds, sr, extVars, ck>>

----------------------------------------------------------------------------
(* Search: QdrantProvider.search and search_reports                         *)

Min(a, b) == IF a < b THEN a ELSE b

\* lines 168-176: the equality filter on employee_id
filter_params(employee_id) ==
    [must |-> <<[key |-> "employee_id", match |-> [value |-> employee_id]]>>]

\* QdrantProvider.search lines 147-159: the dictionary filter as a list of
\* FieldCondition(key, MatchValue(value))
query_filter_none(fp) == <<>>

query_filter(fp) ==
    [i \in 1..Len(fp.must) |-> [key |-> fp.must[i].key, value |-> fp.must[i].match.value]]

\* the backend's conjunctive payload filter
MatchesFilter(payload, qf) ==
    \A i \in 1..Len(qf) :
        /\ qf[i].key \in DOMAIN payload
        /\ payload[qf[i].key] = qf[i].value

\* client.search: the `limit` nearest points that match the filter, nearest
\* first; which points are nearest, and their scores, is the backend's choice
BackendResponses(pts, qf, limit) ==
    LET match == {i \in DOMAIN pts : MatchesFilter(pts[i].payload, qf)}
        n == Min(limit, Cardinality(match))
        nearest == {p \in [1..n -> match] : \A i, j \in 1..n : i # j => p[i] # p[j]}
        scores == {sc \in [1..n -> Scores] : \A i \in 1..n : i < n => sc[i] >= sc[i + 1]}
    IN  {[i \in 1..n |-> <<p[i], sc[i]>>] : p \in nearest, sc \in scores}

\* lines 170-178: payload.copy() plus "score" and "id"
Hit(pts, scored) ==
    LET payload == pts[scored[1]].payload
    IN  [k \in DOMAIN payload \cup {"score", "id"} |->
            IF k = "score" THEN scored[2]
            ELSE IF k = "id" THEN scored[1]
            ELSE payload[k]]

\* QdrantProvider.search: an exception of the client (absent collection,
\* wrong vector length, backend failure) gives []
provider_search(pts, coll, query_vector, fp, response, backendOk) ==
    IF backendOk /\ coll.exists /\ query_vector = coll.size
    THEN [i \in 1..Len(response) |-> Hit(pts, response[i])]
    ELSE <<>>

\* line 200: r.get("score", 0) >= score_threshold
PassesThresholdAlways(hit, score_threshold) == TRUE

PassesThreshold(hit, score_threshold) ==
    (IF "score" \in DOMAIN hit THEN hit.score ELSE 0) >= score_threshold

\* lines 196-201: the list comprehension keeps the order of results
filtered_results(results, score_threshold, bypass_threshold) ==
    IF bypass_threshold THEN results
    ELSE LET F[i \in 0..Len(results)] ==
                 IF i = 0 THEN <<>>
                 ELSE IF PassesThreshold(results[i], score_threshold)
                      THEN Append(F[i - 1], results[i])
                      ELSE F[i - 1]
         IN  F[Len(results)]

\* datetime.strptime(s, "%Y-%m-%d"): does s parse?
DaysInMonth(y, m) ==
    IF m \in {4, 6, 9, 11} THEN 30
    ELSE IF m = 2 THEN (IF y % 4 = 0 /\ (y % 100 # 0 \/ y % 400 = 0) THEN 29 ELSE 28)
    ELSE 31

Parseable(s) ==
    /\ Len(s) = 3
    /\ s[1] \in 1..9999
    /\ s[2] \in 1..12
    /\ s[3] \in 1..DaysInMonth(s[1], s[2])

\* the parsed datetime as a number that orders as datetimes do
strptime(s) == (s[1] * 12 + (s[2] - 1)) * 31 + (s[3] - 1)

DefaultDate == <<1900, 1, 1>>

\* line 206: hit.get("report_date", "1900-01-01")
DateString(hit) == IF "report_date" \in DOMAIN hit THEN hit.report_date ELSE DefaultDate

datekey(hit) == strptime(DateString(hit))

\* sorted(..., reverse=True): a stable sort, descending
InsertAsc(sorted, hit) ==
    LET before == {i \in 1..Len(sorted) : datekey(sorted[i]) <= datekey(hit)}
        k == Cardinality(before)
    IN  SubSeq(sorted, 1, k) \o <<hit>> \o SubSeq(sorted, k + 1, Len(sorted))

\* sorted(...)[::-1]: ascending and then reversed, which turns ties around
InsertDescTiesFirst(sorted, hit) ==
    LET before == {i \in 1..Len(sorted) : datekey(sorted[i]) > datekey(hit)}
        k == Cardinality(before)
    IN  SubSeq(sorted, 1, k) \o <<hit>> \o SubSeq(sorted, k + 1, Len(sorted))

InsertDesc(sorted, hit) ==
    LET before == {i \in 1..Len(sorted) : datekey(sorted[i]) >= datekey(hit)}
        k == Cardinality(before)
    IN  SubSeq(sorted, 1, k) \o <<hit>> \o SubSeq(sorted, k + 1, Len(sorted))

sorted_desc(hits) ==
    LET F[i \in 0..Len(hits)] ==
            IF i = 0 THEN <<>> ELSE InsertDesc(F[i - 1], hits[i])
    IN  F[Len(hits)]

\* lines 203-212: sort by date, or keep the order when a date does not parse
sorted_results(filtered) ==
    IF \A i \in 1..Len(filtered) : Parseable(DateString(filtered[i]))
    THEN sorted_desc(filtered)
    ELSE filtered

\* line 153: `if not query_embedding or len(query_embedding) == 0`
EmbeddingEmptyNever(query_embedding) == FALSE

EmbeddingEmpty(query_embedding) == query_embedding = 0

\* lines 146-220, the body of the try block: exc is an exception leaving it
search_body(pts, coll, employee_id, score_threshold, bypass_threshold, storeOk, query_embedding, response, backendOk) ==
    IF ~storeOk
    THEN [exc |-> TRUE, value |-> <<>>, backendCalled |-> FALSE, raw |-> <<>>]
    ELSE IF EmbeddingEmpty(query_embedding)
    THEN [exc |-> FALSE, value |-> <<>>, backendCalled |-> FALSE, raw |-> <<>>]
    ELSE LET results == provider_search(pts, coll, query_embedding,
                                        filter_params(employee_id), response, backendOk)
         IN  [exc |-> FALSE,
              value |-> sorted_results(filtered_results(results, score_threshold,
                                                        bypass_threshold)),
              backendCalled |-> TRUE, raw |-> results]

\* lines 221-225: `except Exception: return []`
CatchNothing(body) == body

CatchAll(body) == IF body.exc THEN [body EXCEPT !.exc = FALSE, !.value = <<>>] ELSE body

search_reports(pts, coll, employee_id, score_threshold, bypass_threshold, storeOk, query_embedding, response, backendOk) ==
    CatchAll(search_body(pts, coll, employee_id, score_threshold, bypass_threshold,
                         storeOk, query_embedding, response, backendOk))

Thresholds == Scores

Search ==
    /\ ing.pc = "idle"
    /\ ~sr.called
    /\ ~gc.called
    /\ \E storeOk \in BOOLEAN, query_embedding \in EmbeddingOutcomes, backendOk \in BOOLEAN,
          employee_id \in Emps, top_k \in 1..MaxLimit :
         \* outcomes and arguments that are never consulted are fixed
         /\ ~storeOk => query_embedding = 0
         /\ (~storeOk \/ EmbeddingEmpty(query_embedding)) => backendOk /\ top_k = 1
         /\ \E response \in IF storeOk /\ ~EmbeddingEmpty(query_embedding) /\ backendOk
                            THEN BackendResponses(points,
                                                  query_filter(filter_params(employee_id)),
                                                  top_k)
                            ELSE {<<>>} :
            \E bypass_threshold \in BOOLEAN, score_threshold \in Thresholds :
               /\ response = <<>> => score_threshold = 0 /\ ~bypass_threshold
               /\ bypass_threshold => score_threshold = MaxScore
               /\ LET res == search_reports(points, collection, employee_id, score_threshold,
                                            bypass_threshold, storeOk, query_embedding,
                                            response, backendOk)
                  IN  sr' = [called |-> TRUE, employee_id |-> employee_id,
                             score_threshold |-> score_threshold,
                             bypass_threshold |-> bypass_threshold,
                             storeOk |-> storeOk, embedding |-> query_embedding,
                             backendOk |-> backendOk, backendCalled |-> res.backendCalled,
                             raw |-> res.raw, raised |-> res.exc, value |-> res.value]
    \* ing and sr record the most recent call only
    /\ ing' = IngIdle
    /\ UNCHANGED <<collection, points, mappings, nextId, okIds, failedIds, mappedIds, extVars, ck>>

\* the caller has consumed the list search_reports returned
SearchReturn ==
    /\ sr.called
    /\ sr' = SrIdle
    /\ UNCHANGED <<collection, points, mappings, nextId, ing, okIds, failedIds, mappedIds, extVars, ck>>

\* the Vector Index's add_document called directly by another writer, with
\* a fresh point id and a payload of that writer's making
DirectPayloads ==
    { [employee_id |-> 41, text |-> <<"a">>] }

AddDocument ==
    /\ ing.pc = "idle"
    /\ ~sr.called
    /\ ~gc.called
    /\ ~dl.called
    /\ nextId <= MaxIds
    /\ \E payload \in DirectPayloads :
         LET res == add_document(points, collection, nextId, collection.size, payload, TRUE)
         IN  /\ res.ok
             /\ points' = res.points
    /\ nextId' = nextId + 1
    \* ing and sr record the most recent call only
    /\ ing' = IngIdle
    /\ UNCHANGED <<collection, mappings, okIds, failedIds, mappedIds, sr, extVars, ck>>

----------------------------------------------------------------------------
(* GetChunks: QdrantProvider.retrieve_document, delete_document and         *)
(* get_report_chunks                                                        *)

\* retrieve_document's None
NoDocument == [missing |-> TRUE]

\* QdrantProvider.retrieve_document: payload.copy() plus "id", or None when
\* the point is absent or client.retrieve raises (backendOk = FALSE)
retrieve_document(pts, coll, document_id, backendOk) ==
    IF backendOk /\ coll.exists /\ document_id \in DOMAIN pts
    THEN LET payload == pts[document_id].payload
         IN  [k \in DOMAIN payload \cup {"id"} |->
                 IF k = "id" THEN document_id ELSE payload[k]]
    ELSE NoDocument

\* QdrantProvider.delete_document(document_id): [ok, points']
delete_document(pts, coll, document_id, backendOk) ==
    IF backendOk /\ coll.exists
    THEN [ok |-> TRUE, points |-> [i \in DOMAIN pts \ {document_id} |-> pts[i]]]
    ELSE [ok |-> FALSE, points |-> pts]

\* report ids handed to get_report_chunks: those of the documents, a
\* well-formed id no report has, and a string that is no UUID
UnknownReport == "r9"

MalformedReport == "not-a-uuid"

ReportIds == {d.report_id : d \in Documents} \cup {UnknownReport, MalformedReport}

\* orders of equal chunk_index the ORDER BY leaves to the database
UnorderedRows(rows, report_id) ==
    LET match == {r \in rows : r.report_id = report_id}
        n == Cardinality(match)
    IN  {q \in [1..n -> match] : \A i, j \in 1..n : i # j => q[i] # q[j]}

\* SELECT qdrant_id, chunk_index ... WHERE report_id = :report_id
\* ORDER BY chunk_index: the answers the database may give
QueryOrders(rows, report_id) ==
    {q \in UnorderedRows(rows, report_id) :
        \A i \in 1..Len(q) : i < Len(q) => q[i].chunk_index <= q[i + 1].chunk_index}

\* the query raises for an id that is no UUID or when the database fails
QueryAccepted(report_id, queryOk) ==
    /\ queryOk
    /\ report_id # MalformedReport

\* lines 250-251: `if document and "text" in document`
KeepAlways(document) == TRUE

KeepDocument(document) ==
    /\ document # NoDocument
    /\ "text" \in DOMAIN document

\* a loop that stops at the first point it cannot retrieve
collect_chunks_until_missing(pts, coll, result, down) ==
    LET F[i \in 0..Len(result)] ==
            IF i = 0 THEN [chunks |-> <<>>, stopped |-> FALSE]
            ELSE LET document == retrieve_document(pts, coll, result[i].qdrant_id,
                                                   result[i].qdrant_id \notin down)
                 IN  IF F[i - 1].stopped \/ document = NoDocument
                        \/ "text" \notin DOMAIN document
                     THEN [chunks |-> F[i - 1].chunks, stopped |-> TRUE]
                     ELSE [chunks |-> Append(F[i - 1].chunks, document.text),
                           stopped |-> FALSE]
    IN  F[Len(result)].chunks

\* lines 247-252: the loop over the rows; down is the set of point ids for
\* which client.retrieve raises
collect_chunks(pts, coll, result, down) ==
    LET F[i \in 0..Len(result)] ==
            IF i = 0 THEN <<>>
            ELSE LET document == retrieve_document(pts, coll, result[i].qdrant_id,
                                                   result[i].qdrant_id \notin down)
                 IN  IF KeepDocument(document)
                     THEN Append(F[i - 1], IF document = NoDocument THEN document
                                           ELSE document.text)
                     ELSE F[i - 1]
    IN  F[Len(result)]

\* lines 232-256, the body of the try block: exc is an exception leaving it
chunks_body(pts, coll, report_id, storeOk, sessionOk, queryOk, result, down) ==
    IF ~storeOk \/ ~sessionOk \/ ~QueryAccepted(report_id, queryOk)
    THEN [exc |-> TRUE, value |-> <<>>, rows |-> <<>>]
    ELSE [exc |-> FALSE, value |-> collect_chunks(pts, coll, result, down), rows |-> result]

\* lines 257-259: `except Exception: return []`
ChunksCatchNothing(body) == body

ChunksCatchAll(body) == IF body.exc THEN [body EXCEPT !.exc = FALSE, !.value = <<>>] ELSE body

get_report_chunks(pts, coll, report_id, storeOk, sessionOk, queryOk, result, down) ==
    ChunksCatchAll(chunks_body(pts, coll, report_id, storeOk, sessionOk, queryOk, result, down))

GetChunks ==
    /\ ing.pc = "idle"
    /\ ~sr.called
    /\ ~gc.called
    /\ \E report_id \in ReportIds, storeOk \in BOOLEAN, sessionOk \in BOOLEAN,
          queryOk \in BOOLEAN :
         \* outcomes that are never consulted are fixed
         /\ ~storeOk => sessionOk
         /\ (~storeOk \/ ~sessionOk \/ report_id = MalformedReport) => queryOk
         /\ \E result \in IF storeOk /\ sessionOk /\ QueryAccepted(report_id, queryOk)
                          THEN QueryOrders(mappings, report_id)
                          ELSE {<<>>} :
            \E down \in SUBSET {result[i].qdrant_id : i \in 1..Len(result)} :
               LET res == get_report_chunks(points, collection, report_id, storeOk,
                                            sessionOk, queryOk, result, down)
               IN  gc' = [called |-> TRUE, report_id |-> report_id, storeOk |-> storeOk,
                          sessionOk |-> sessionOk, queryOk |-> queryOk, down |-> down,
                          rows |-> res.rows, raised |-> res.exc, value |-> res.value]
    /\ UNCHANGED <<collection, points, mappings, nextId, ing, okIds, failedIds, mappedIds,
                   sr, providerVars, setupVars, lateVars, ck>>

\* the caller has consumed the list get_report_chunks returned
GetChunksReturn ==
    /\ gc.called
    /\ gc' = GcIdle
    /\ UNCHANGED <<collection, points, mappings, nextId, ing, okIds, failedIds, mappedIds,
                   sr, providerVars, setupVars, lateVars, ck>>

\* a point is deleted from the Vector Index through the provider; its
\* Mapping row stays
DeleteDocument ==
    /\ ing.pc = "idle"
    /\ ~sr.called
    /\ ~gc.called
    /\ \E document_id \in DOMAIN points :
         LET res == delete_document(points, collection, document_id, TRUE)
         IN  /\ res.ok
             /\ points' = res.points
    \* ing and sr record the most recent call only
    /\ ing' = IngIdle
    /\ UNCHANGED <<collection, mappings, nextId, okIds, failedIds, mappedIds, sr, extVars, ck>>

----------------------------------------------------------------------------
(* QdrantProvider as a singleton: __new__, __init__ and __del__, called     *)
(* from the worker threads that serve requests                              *)

Threads == {1, 2}

\* constructor arguments: host and port, a storage path, or neither
CtorArgs == {"server", "local", "none"}

\* _instance, _initialized, _instances, _client (0 is None), the instance
\* attribute self.client (bound), the handles opened so far by kind, the
\* handles closed, the handle of the first successful construction
QpInit == [instance |-> 0, initialized |-> FALSE, instances |-> 0, client |-> 0,
           bound |-> 0, opened |-> <<>>, closed |-> {}, first |-> 0, attempts |-> 0,
           finalised |-> FALSE, closeRaised |-> FALSE]

CtorIdle == [pc |-> "idle", args |-> "none", late |-> FALSE, outcome |-> "none",
             instance |-> 0, client |-> 0]

\* __new__: the instance is created once and then returned
new_instance(q) == IF q.instance = 0 THEN 1 ELSE q.instance

\* __init__ lines 44-47
SkipInit(q) == q.initialized

\* QdrantClient(host, port) opens a handle; QdrantClient(path) raises when
\* the storage is held by another process or by a handle of this process
ClientOpens(q, args, pathFree) ==
    \/ args = "server"
    \/ /\ args = "local"
       /\ pathFree
       /\ \A h \in 1..Len(q.opened) : q.opened[h] = "local" => h \in q.closed

\* __new__ and __init__ lines 44-50 for thread t
ConstructBegin(t) ==
    /\ ~qp.finalised
    /\ ctor[t].pc = "idle"
    /\ qp.attempts < MaxAttempts
    /\ \E args \in CtorArgs :
         LET q == [qp EXCEPT !.instance = new_instance(qp), !.attempts = @ + 1]
         IN  IF SkipInit(qp)
             THEN /\ qp' = q
                  /\ ctor' = [ctor EXCEPT ![t] = [pc |-> "idle", args |-> args,
                                                  late |-> qp.first # 0,
                                                  outcome |-> "returned",
                                                  instance |-> q.instance,
                                                  client |-> q.bound]]
             ELSE /\ qp' = [q EXCEPT !.instances = @ + 1]
                  /\ ctor' = [ctor EXCEPT ![t] = [pc |-> "opening", args |-> args,
                                                  late |-> qp.first # 0,
                                                  outcome |-> "none",
                                                  instance |-> q.instance,
                                                  client |-> 0]]
    /\ UNCHANGED <<collection, points, mappings, nextId, ing, okIds, failedIds, mappedIds,
                   sr, getVars, setupVars, lateVars, ck>>

\* __init__ lines 74-93 for thread t: open the client, bind it, or raise
ConstructOpen(t) ==
    /\ ctor[t].pc = "opening"
    /\ \E pathFree \in BOOLEAN :
         /\ ctor[t].args # "local" => pathFree
         /\ IF ClientOpens(qp, ctor[t].args, pathFree)
            THEN LET h == Len(qp.opened) + 1
                 IN  /\ qp' = [qp EXCEPT !.opened = Append(@, ctor[t].args),
                                         !.client = h, !.bound = h,
                                         !.initialized = TRUE,
                                         !.first = IF @ = 0 THEN h ELSE @]
                     /\ ctor' = [ctor EXCEPT ![t].pc = "idle", ![t].outcome = "returned",
                                             ![t].client = h]
            ELSE /\ qp' = qp
                 /\ ctor' = [ctor EXCEPT ![t].pc = "idle", ![t].outcome = "raised"]
    /\ UNCHANGED <<collection, points, mappings, nextId, ing, okIds, failedIds, mappedIds,
                   sr, getVars, setupVars, lateVars, ck>>

\* __del__ (lines 95-108); closeOk = FALSE is client.close() raising
del_instance(q, closeOk) ==
    LET closing == q.client # 0 /\ q.instances <= 1
        q1 == IF closing /\ closeOk
              THEN [q EXCEPT !.closed = @ \cup {q.client}, !.client = 0,
                             !.initialized = FALSE]
              ELSE [q EXCEPT !.closeRaised = closing]
    IN  [q1 EXCEPT !.instances = IF @ > 0 THEN @ - 1 ELSE @, !.finalised = TRUE]

\* the last reference to the instance is dropped and it is finalised: no
\* request is in progress
Finalise ==
    /\ ~qp.finalised
    /\ qp.instance # 0
    /\ \A t \in Threads : ctor[t].pc = "idle"
    /\ \E closeOk \in BOOLEAN :
         /\ ~(qp.client # 0 /\ qp.instances <= 1) => closeOk
         /\ qp' = del_instance(qp, closeOk)
    /\ UNCHANGED <<collection, points, mappings, nextId, ing, okIds, failedIds, mappedIds,
                   sr, getVars, ctor, setupVars, lateVars, ck>>

----------------------------------------------------------------------------
(* QdrantProvider.setup_collection called from the worker threads: the      *)
(* exists-check (get_collections) and create_collection are two backend     *)
(* calls                                                                    *)

\* vector_size arguments: the embedding size, or 0 when the probe embedding
\* came back empty
VectorSizes == {0, EmbeddingDim}

NoCall == [outcome |-> "none"]

SuIdle == [pc |-> "idle", vector_size |-> 0, outcome |-> "none", created |-> FALSE,
           overlapped |-> FALSE, after |-> NoCall, prePoints |-> <<>>,
           postPoints |-> <<>>]

\* creations: successful create_collection calls; last: the call that
\* completed last
ShInit == [creations |-> 0, calls |-> 0, last |-> NoCall]

InSetup(t) == su[t].pc # "idle"

\* client.create_collection: raises when the collection exists already, when
\* the backend fails or rejects the size; otherwise a new, empty collection
create_collection(coll, pts, vector_size, createOk) ==
    IF coll.exists
    THEN [ok |-> FALSE, conflict |-> TRUE, collection |-> coll, points |-> pts]
    ELSE IF CreateAccepted(vector_size, createOk)
    THEN [ok |-> TRUE, conflict |-> FALSE,
          collection |-> [exists |-> TRUE, size |-> vector_size], points |-> <<>>]
    ELSE [ok |-> FALSE, conflict |-> FALSE, collection |-> coll, points |-> pts]

\* lines 114-118: create only a collection the listing did not show
NeedsCreateAlways(listed) == TRUE

NeedsCreate(listed) == ~listed

\* the record of a call that has returned
SetupDone(call, outcome, created, pts) ==
    [call EXCEPT !.pc = "idle", !.outcome = outcome, !.created = created,
                 !.postPoints = pts]

\* every call in progress has now run next to another call
MarkOverlapped(calls, t) ==
    [u \in Threads |-> IF u # t /\ calls[u].pc # "idle"
                       THEN [calls[u] EXCEPT !.overlapped = TRUE]
                       ELSE calls[u]]

\* lines 112-114 and 120-123 for thread t: list the collections; return
\* False when that raises, True when the collection is listed
SetupCheck(t) ==
    /\ ~InSetup(t)
    /\ sh.calls < MaxSetupCalls
    /\ \E vector_size \in VectorSizes, listOk \in BOOLEAN :
         LET others == \E u \in Threads : u # t /\ InSetup(u)
             call == [SuIdle EXCEPT !.vector_size = vector_size, !.overlapped = others,
                                    !.after = sh.last, !.prePoints = points]
             done == IF ~listOk THEN SetupDone(call, "list_failed", FALSE, points)
                     ELSE SetupDone(call, "true", FALSE, points)
             returns == ~listOk \/ ~NeedsCreate(collection.exists)
         IN  /\ su' = [MarkOverlapped(su, t) EXCEPT
                          ![t] = IF returns THEN done ELSE [call EXCEPT !.pc = "create"]]
             /\ sh' = [sh EXCEPT !.calls = @ + 1,
                                 !.last = IF returns
                                          THEN [outcome |-> done.outcome,
                                                vector_size |-> vector_size]
                                          ELSE @]
    /\ UNCHANGED <<collection, points, mappings, nextId, ing, okIds, failedIds, mappedIds,
                   sr, getVars, providerVars, lateVars, ck>>

\* lines 115-123 for thread t: create the collection; return False when
\* that raises
SetupCreate(t) ==
    /\ su[t].pc = "create"
    /\ \E createOk \in BOOLEAN :
         LET res == create_collection(collection, points, su[t].vector_size, createOk)
             outcome == IF res.ok THEN "true"
                        ELSE IF res.conflict THEN "conflict" ELSE "create_failed"
         IN  /\ res.conflict => createOk
             /\ collection' = res.collection
             /\ points' = res.points
             /\ su' = [su EXCEPT ![t] = SetupDone(su[t], outcome, res.ok, res.points)]
             /\ sh' = [sh EXCEPT !.creations = IF res.ok THEN @ + 1 ELSE @,
                                 !.last = [outcome |-> outcome,
                                           vector_size |-> su[t].vector_size]]
    /\ UNCHANGED <<mappings, nextId, ing, okIds, failedIds, mappedIds,
                   sr, getVars, providerVars, lateVars, ck>>

\* a point is written to the collection while no setup call is in progress
SetupAddDocument ==
    /\ \A t \in Threads : ~InSetup(t)
    /\ AddDocument

----------------------------------------------------------------------------
(* add_report_to_vector_store called from two worker threads at once: each  *)
(* backend call, embedding and Mapping Store write is one step              *)

PrIdle == [pc |-> "idle", report_id |-> "r1", employee_id |-> 41,
           report_date |-> <<2025, 3, 15>>, chunks |-> <<>>, idx |-> 0,
           document_id |-> 0, embedding |-> 0, vector_size |-> 0, setup |-> "none",
           ret |-> "none", clean |-> TRUE, ids |-> {}]

\* what the pair actions leave alone
pairFrame == <<ing, okIds, failedIds, mappedIds, sr, getVars, providerVars, setupVars, deleteVars, llmVars, ck>>

\* a point id made from the chunk's position instead of a fresh uuid
ChunkPointIdByIndex(next, chunk_index) == chunk_index + 1

\* line 98: document_id = str(uuid4()), a value no earlier call has drawn
ChunkPointId(next, chunk_index) == next

\* the call of thread t has returned: its locals are gone
PairReturned(c, setup, ret) ==
    [PrIdle EXCEPT !.report_id = c.report_id, !.employee_id = c.employee_id,
                   !.report_date = c.report_date, !.chunks = c.chunks,
                   !.setup = setup, !.ret = ret, !.clean = c.clean, !.ids = c.ids]

\* the call enters its loop over the chunks (lines 94-96)
PairChunked(c, report_text) ==
    LET chunks == chunk_text(report_text, MaxChunkSize)
    IN  [c EXCEPT !.setup = "ok", !.chunks = chunks,
                  !.pc = IF chunks = <<>> THEN "done" ELSE "embed"]

\* lines 84-89 with setup_collection lines 49-52 and the provider's lines
\* 112-114 for thread t: obtain the store, embed the probe string, list the
\* collections
PairCall(t) ==
    /\ pr[t].pc = "idle"
    /\ pr[t].ret = "none"
    /\ \E doc \in Documents, storeOk \in BOOLEAN, probe \in EmbeddingOutcomes,
          listOk \in BOOLEAN :
         LET chunks == chunk_text(doc.report_text, MaxChunkSize)
             call == [PrIdle EXCEPT !.report_id = doc.report_id,
                                    !.employee_id = doc.employee_id,
                                    !.report_date = doc.report_date,
                                    !.vector_size = probe]
         IN  \* outcomes that are never consulted are fixed
             /\ ~storeOk => probe = 0 /\ listOk
             /\ probes' = IF storeOk THEN probes + 1 ELSE probes
             /\ pr' = [pr EXCEPT ![t] =
                          IF ~storeOk THEN PairReturned([call EXCEPT !.clean = FALSE],
                                                        "no_store", "false")
                          ELSE IF ~listOk
                          THEN PairReturned([call EXCEPT !.clean = FALSE], "failed", "false")
                          ELSE IF NeedsCreate(collection.exists)
                          THEN [call EXCEPT !.pc = "create"]
                          ELSE PairChunked(call, doc.report_text)]
    /\ UNCHANGED <<collection, points, mappings, nextId>>
    /\ UNCHANGED pairFrame

\* the provider's lines 115-123 and lines 89-94 for thread t: create the
\* collection; setup_collection returns False when that raises
PairCreate(t) ==
    /\ pr[t].pc = "create"
    /\ \E createOk \in BOOLEAN :
         LET res == create_collection(collection, points, pr[t].vector_size, createOk)
             doc == CHOOSE d \in Documents : d.report_id = pr[t].report_id
         IN  /\ res.conflict => createOk
             /\ collection' = res.collection
             /\ points' = res.points
             /\ pr' = [pr EXCEPT ![t] =
                          IF AbortOnSetupFailure(res.ok)
                          THEN PairReturned([pr[t] EXCEPT !.clean = FALSE], "failed", "false")
                          ELSE PairChunked(pr[t], doc.report_text)]
    /\ UNCHANGED <<mappings, nextId, probes>>
    /\ UNCHANGED pairFrame

\* lines 97-101 for thread t
PairEmbed(t) ==
    /\ pr[t].pc = "embed"
    /\ nextId <= MaxPairIds
    /\ \E embedding \in EmbeddingOutcomes :
         LET id == ChunkPointId(nextId, pr[t].idx)
         IN  pr' = [pr EXCEPT ![t].pc = "upsert", ![t].document_id = id,
                              ![t].embedding = embedding,
                              ![t].ids = @ \cup {id},
                              ![t].clean = @ /\ embedding = EmbeddingDim]
    /\ nextId' = nextId + 1
    /\ UNCHANGED <<collection, points, mappings, probes>>
    /\ UNCHANGED pairFrame

\* lines 103-120 for thread t
PairUpsert(t) ==
    /\ pr[t].pc = "upsert"
    /\ \E backendOk \in BOOLEAN :
         LET res == add_document(points, collection, pr[t].document_id, pr[t].embedding,
                                 Payload(pr[t]), backendOk)
         IN  /\ points' = res.points
             /\ pr' = [pr EXCEPT ![t] =
                          IF ShouldStoreMapping(res.ok)
                          THEN [pr[t] EXCEPT !.pc = "map"]
                          ELSE [pr[t] EXCEPT !.pc = AfterChunk(pr[t].idx, pr[t].chunks),
                                             !.idx = @ + 1, !.clean = FALSE]]
    /\ UNCHANGED <<collection, mappings, nextId, probes>>
    /\ UNCHANGED pairFrame

\* lines 121-126 for thread t
PairMap(t) ==
    /\ pr[t].pc = "map"
    /\ \E sessionOk \in BOOLEAN, dbOk \in BOOLEAN :
         LET res == store_mapping(mappings, pr[t].document_id, pr[t].report_id, pr[t].idx,
                                  sessionOk, dbOk)
         IN  /\ ~sessionOk => dbOk
             /\ mappings' = res.mappings
             /\ pr' = [pr EXCEPT ![t] =
                          IF res.raised
                          THEN PairReturned([pr[t] EXCEPT !.clean = FALSE], pr[t].setup, "false")
                          ELSE [pr[t] EXCEPT !.pc = AfterChunk(pr[t].idx, pr[t].chunks),
                                             !.idx = @ + 1, !.clean = @ /\ res.ret]]
    /\ UNCHANGED <<collection, points, nextId, probes>>
    /\ UNCHANGED pairFrame

\* lines 128-129 for thread t
PairReturn(t) ==
    /\ pr[t].pc = "done"
    /\ pr' = [pr EXCEPT ![t] = PairReturned(pr[t], pr[t].setup, "true")]
    /\ UNCHANGED <<collection, points, mappings, nextId, probes>>
    /\ UNCHANGED pairFrame

----------------------------------------------------------------------------
(* delete_document with a points selector, and verify_deletion              *)

\* points_selector=None: no Filter object
NoSelector == <<[key |-> "None", value |-> 0]>>

\* a deletion that removes one matching point only
delete_first_selected(pts, coll, points_selector, backendOk) ==
    LET match == {i \in DOMAIN pts : MatchesFilter(pts[i].payload, points_selector)}
        gone == IF match = {} THEN {} ELSE {CHOOSE i \in match : \A j \in match : i <= j}
    IN  IF points_selector # NoSelector /\ backendOk /\ coll.exists
        THEN [ok |-> TRUE, points |-> [i \in DOMAIN pts \ gone |-> pts[i]]]
        ELSE [ok |-> FALSE, points |-> pts]

\* QdrantProvider.delete_document(points_selector=Filter) lines 209-226:
\* ValueError without a selector; client.delete removes every point the
\* filter matches, and raises when the collection is absent or the backend
\* fails
delete_selected(pts, coll, points_selector, backendOk) ==
    LET match == {i \in DOMAIN pts : MatchesFilter(pts[i].payload, points_selector)}
    IN  IF points_selector # NoSelector /\ backendOk /\ coll.exists
        THEN [ok |-> TRUE, points |-> [i \in DOMAIN pts \ match |-> pts[i]]]
        ELSE [ok |-> FALSE, points |-> pts]

\* QdrantProvider.verify_deletion lines 268-294: client.count with the
\* filter is 0; an exception of the client gives False
verify_deletion(pts, coll, fp, backendOk) ==
    LET match == {i \in DOMAIN pts : MatchesFilter(pts[i].payload, query_filter(fp))}
    IN  /\ backendOk
        /\ coll.exists
        /\ Cardinality(match) = 0

DlIdle == [called |-> FALSE]

\* the caller deletes the points of one employee (cleanup_test_data lines
\* 169-182), the selector being a Filter or missing
DeleteByFilter ==
    /\ ing.pc = "idle"
    /\ ~sr.called
    /\ ~gc.called
    /\ ~dl.called
    /\ \E employee_id \in Emps, withSelector \in BOOLEAN, backendOk \in BOOLEAN :
         LET fp == filter_params(employee_id)
             selector == IF withSelector THEN query_filter(fp) ELSE NoSelector
             res == delete_selected(points, collection, selector, backendOk)
         IN  /\ ~withSelector => backendOk
             /\ points' = res.points
             /\ dl' = [called |-> TRUE, employee_id |-> employee_id, ok |-> res.ok,
                       deleted |-> DOMAIN points \ DOMAIN res.points,
                       others |-> {i \in DOMAIN points :
                                     ~MatchesFilter(points[i].payload, query_filter(fp))},
                       verified |-> "none", countOk |-> TRUE]
    \* ing and sr record the most recent call only
    /\ ing' = IngIdle
    /\ UNCHANGED <<collection, mappings, nextId, okIds, failedIds, mappedIds, sr, getVars,
                   providerVars, setupVars, pairVars, llmVars, ck>>

\* the caller verifies the deletion with the same filter (lines 185-188)
VerifyDeletion ==
    /\ ing.pc = "idle"
    /\ ~sr.called
    /\ ~gc.called
    /\ dl.called
    /\ dl.verified = "none"
    /\ \E backendOk \in BOOLEAN :
         dl' = [dl EXCEPT !.verified =
                              IF verify_deletion(points, collection,
                                                 filter_params(dl.employee_id), backendOk)
                              THEN "true" ELSE "false",
                          !.countOk = backendOk]
    /\ UNCHANGED <<collection, points, mappings, nextId, ing, okIds, failedIds, mappedIds, sr,
                   getVars, providerVars, setupVars, pairVars, llmVars, ck>>

\* the caller has finished its cleanup
DeleteReturn ==
    /\ dl.called
    /\ ~sr.called
    /\ dl' = DlIdle
    /\ UNCHANGED <<collection, points, mappings, nextId, ing, okIds, failedIds, mappedIds, sr,
                   getVars, providerVars, setupVars, pairVars, llmVars, ck>>

\* the caller searches for the employee whose points it has deleted
SearchAfterDelete ==
    /\ dl.called
    /\ dl.ok
    /\ Search
    /\ sr'.employee_id = dl.employee_id

----------------------------------------------------------------------------
(* LLMService.generate_text: the retry loop, one step per provider call     *)

\* retries=None, the argument's default
NoRetries == -1

\* the retries argument: None or a number
RetriesArgs == {NoRetries} \cup 0..MaxRetries

\* what provider.generate_text returns when it does not raise
Responses == {"text", ""}

\* line 49: max_attempts = retries or self.max_retries; `or` takes the
\* second operand when the first is None or 0
max_attempts(retries, max_retries) ==
    IF retries # NoRetries /\ retries # 0 THEN retries ELSE max_retries

\* line 50 and line 31: retry_delay, the unit the delays are counted in
retry_delay == 1

LlmIdle == [pc |-> "idle", retries |-> NoRetries, max_retries |-> 1, max_attempts |-> 0,
            attempts |-> 0, calls |-> 0, current_delay |-> 0, slept |-> 0,
            succeeded |-> FALSE, result |-> "none"]

llmFrame == <<collection, points, mappings, nextId, ing, okIds, failedIds, mappedIds, sr, getVars, providerVars, setupVars, pairVars, deleteVars, ck>>

\* lines 48-52: the locals are set and the loop condition is tested; a loop
\* that is never entered falls off the end of the function, which is None
GenerateCall ==
    /\ llm.pc \in {"idle", "returned"}
    /\ \E retries \in RetriesArgs, max_retries \in 1..MaxRetries :
         LET limit == max_attempts(retries, max_retries)
             call == [LlmIdle EXCEPT !.retries = retries, !.max_retries = max_retries,
                                     !.max_attempts = limit,
                                     !.current_delay = retry_delay]
         IN  llm' = IF 0 < limit THEN [call EXCEPT !.pc = "loop"]
                    ELSE [call EXCEPT !.pc = "returned", !.result = "None"]
    /\ UNCHANGED llmFrame

\* lines 53-59: the provider call returns and generate_text returns its value
GenerateSucceed ==
    /\ llm.pc = "loop"
    /\ \E response \in Responses :
         llm' = [llm EXCEPT !.pc = "returned", !.calls = @ + 1, !.succeeded = TRUE,
                            !.result = response]
    /\ UNCHANGED llmFrame

\* lines 60-70 and 52: the provider call raises; the last allowed attempt
\* returns "", an earlier one sleeps, doubles the delay and loops
GenerateFail ==
    /\ llm.pc = "loop"
    /\ LET attempts == llm.attempts + 1
       IN  llm' = IF attempts >= llm.max_attempts
                  THEN [llm EXCEPT !.pc = "returned", !.calls = @ + 1,
                                   !.attempts = attempts, !.result = ""]
                  ELSE [llm EXCEPT !.calls = @ + 1, !.attempts = attempts,
                                   !.slept = @ + llm.current_delay,
                                   !.current_delay = @ * 2]
    /\ UNCHANGED llmFrame

----------------------------------------------------------------------------
(* Specifications                                                           *)

Init ==
    /\ collection = NoCollection
    /\ points = <<>>
    /\ mappings = {}
    /\ nextId = 1
    /\ ing = IngIdle
    /\ okIds = {}
    /\ failedIds = {}
    /\ mappedIds = {}
    /\ sr = SrIdle
    /\ gc = GcIdle
    /\ qp = QpInit
    /\ ctor = [t \in Threads |-> CtorIdle]
    /\ su = [t \in Threads |-> SuIdle]
    /\ sh = ShInit
    /\ pr = [t \in Threads |-> PrIdle]
    /\ probes = 0
    /\ dl = DlIdle
    /\ llm = LlmIdle
    /\ ck = CkIdle

Next ==
    \/ IngestCall
    \/ IngestEmbed
    \/ IngestUpsert
    \/ IngestMap
    \/ IngestReturn
    \/ Search
    \/ SearchReturn

Spec == Init /\ [][Next]_vars

\* the Retrieval Service next to a direct user of the Vector Index
NextIndex ==
    \/ Next
    \/ AddDocument

SpecIndex == Init /\ [][NextIndex]_vars

NextChunk ==
    \/ ChunkCall
    \/ ChunkIter
    \/ ChunkReturn

SpecChunk == Init /\ [][NextChunk]_vars

\* Ingest next to GetChunks and a deletion from the Vector Index
NextGet ==
    \/ IngestCall
    \/ IngestEmbed
    \/ IngestUpsert
    \/ IngestMap
    \/ IngestReturn
    \/ GetChunks
    \/ GetChunksReturn
    \/ DeleteDocument

SpecGet == Init /\ [][NextGet]_vars

\* construction requests of the worker threads and the finalisation
NextProvider ==
    \/ \E t \in Threads : ConstructBegin(t)
    \/ \E t \in Threads : ConstructOpen(t)
    \/ Finalise

SpecProvider == Init /\ [][NextProvider]_vars

\* setup_collection calls of the worker threads next to a writer of points
NextSetup ==
    \/ \E t \in Threads : SetupCheck(t)
    \/ \E t \in Threads : SetupCreate(t)
    \/ SetupAddDocument

SpecSetup == Init /\ [][NextSetup]_vars

\* two worker threads, each serving one add_report_to_vector_store request
NextPair ==
    \/ \E t \in Threads : PairCall(t)
    \/ \E t \in Threads : PairCreate(t)
    \/ \E t \in Threads : PairEmbed(t)
    \/ \E t \in Threads : PairUpsert(t)
    \/ \E t \in Threads : PairMap(t)
    \/ \E t \in Threads : PairReturn(t)

SpecPair == Init /\ [][NextPair]_vars

\* Ingest next to a caller that deletes by filter, verifies and searches
NextDelete ==
    \/ IngestCall
    \/ IngestEmbed
    \/ IngestUpsert
    \/ IngestMap
    \/ IngestReturn
    \/ DeleteByFilter
    \/ SearchAfterDelete
    \/ SearchReturn
    \/ VerifyDeletion
    \/ DeleteReturn

SpecDelete == Init /\ [][NextDelete]_vars

NextLLM ==
    \/ GenerateCall
    \/ GenerateSucceed
    \/ GenerateFail

SpecLLM == Init /\ [][NextLLM]_vars

\* Ingest and GetChunks next to deletions by point id and by filter
NextPurge ==
    \/ NextGet
    \/ DeleteByFilter
    \/ DeleteReturn

SpecPurge == Init /\ [][NextPurge]_vars

----------------------------------------------------------------------------
(* Ingest: the Mapping Store against the Vector Index                       *)

RowsOf(id) == {r \in mappings : r.qdrant_id = id}

\* C1: during add_report_to_vector_store a Mapping row is written for a
\* point_id only after the upsert of that point_id reported success: no
\* Mapping row exists for a point whose upsert failed.
C1_MappingOnlyAfterUpsert ==
    \A r \in mappings : r.qdrant_id \in okIds /\ r.qdrant_id \notin failedIds

\* an upsert has failed and an upsert has succeeded and been mapped
C1_Witness ==
    /\ failedIds # {}
    /\ mappings # {}

\* C2 as claimed, read at the return of a call that reported success: every
\* point upserted successfully has exactly one Mapping row with its point_id.
C2_ExactlyOneRow ==
    (ing.pc = "idle" /\ ing.ret = "true") =>
        \A id \in okIds : Cardinality(RowsOf(id)) = 1

\* C2 as amended: every point upserted successfully has at most one Mapping
\* row with its point_id, and it has one exactly when store_mapping returned
\* True for it; a point whose store_mapping returned False or raised has none.
C2_RowIffMappingStored ==
    \A id \in okIds :
        /\ Cardinality(RowsOf(id)) <= 1
        /\ id \in mappedIds <=> Cardinality(RowsOf(id)) = 1

\* calls have returned leaving one mapped point and one orphaned point
C2_Witness ==
    /\ ing.pc = "idle"
    /\ \E id \in okIds : id \in mappedIds /\ RowsOf(id) # {}
    /\ \E id \in okIds : id \notin mappedIds /\ id \in DOMAIN points

\* the embed and upsert attempts a call with n chunks is to make, in order
RECURSIVE ExpectedAttempts(_)
ExpectedAttempts(n) ==
    IF n = 0 THEN <<>>
    ELSE ExpectedAttempts(n - 1) \o <<<<"embed", n - 1>>, <<"upsert", n - 1>>>>

IsAttempt(entry) == entry[1] \in {"embed", "upsert"}

\* C3: a call whose collection setup succeeded makes an embed and an upsert
\* attempt for every chunk in chunk_index order, whatever became of earlier
\* chunks, and then returns success.
C3_EveryChunkAttempted ==
    (ing.pc = "idle" /\ ing.setup = "ok" /\ ing.ret # "none") =>
        /\ ing.ret = "true"
        /\ SelectSeq(ing.log, IsAttempt) = ExpectedAttempts(Len(ing.chunks))

\* C4: if collection setup fails, Ingest returns failure, makes no upsert and
\* no Mapping Store write: both stores are as the call found them.
C4_SetupFailureChangesNothing ==
    ing.setup = "failed" =>
        /\ ing.pc = "idle"
        /\ ing.ret = "false"
        /\ ing.log = <<>>
        /\ points = ing.prePoints
        /\ mappings = ing.preMappings

\* setup failed for a call that found points and mappings in the stores
C4_Witness ==
    /\ ing.setup = "failed"
    /\ ing.ret = "false"
    /\ DOMAIN points # {}
    /\ mappings # {}

----------------------------------------------------------------------------
(* Search                                                                   *)

Count(seq, x) == Cardinality({i \in 1..Len(seq) : seq[i] = x})

\* b holds the elements of a, each as often, in some order
Reordered(a, b) ==
    /\ Len(a) = Len(b)
    /\ \A i \in 1..Len(a) : Count(a, a[i]) = Count(b, a[i])

\* b holds elements of a in the order a has them
InOrderOf(a, b) ==
    \A i, j \in 1..Len(b) :
        i < j => \E k, l \in 1..Len(a) : k < l /\ a[k] = b[i] /\ a[l] = b[j]

\* C5: Search with scope_key = X returns no result whose payload employee_id
\* differs from X, whatever mixture of scopes Ingest has indexed.
C5_SearchScoped ==
    sr.called =>
        \A i \in 1..Len(sr.value) :
            /\ "employee_id" \in DOMAIN sr.value[i]
            /\ sr.value[i].employee_id = sr.employee_id

\* a search returned results while points of another scope are indexed
C5_Witness ==
    /\ sr.called
    /\ sr.value # <<>>
    /\ \E id \in DOMAIN points : points[id].payload.employee_id # sr.employee_id

\* C6: without bypass_threshold no returned result has score < T; with
\* bypass_threshold the returned results are the results the Vector Index
\* returned, only reordered.
C6_Threshold ==
    sr.called =>
        IF sr.bypass_threshold
        THEN Reordered(sr.raw, sr.value)
        ELSE \A i \in 1..Len(sr.value) : sr.value[i].score >= sr.score_threshold

\* a search without bypass kept one result and dropped one below the threshold
C6_Witness ==
    /\ sr.called
    /\ ~sr.bypass_threshold
    /\ sr.value # <<>>
    /\ \E i \in 1..Len(sr.raw) : sr.raw[i].score < sr.score_threshold

\* the date a result is ordered by when a missing or unparseable date is to
\* count as the oldest possible date
OldestKey == strptime(<<1, 1, 1>>) - 1

ClaimedDateKey(hit) ==
    IF "report_date" \in DOMAIN hit /\ Parseable(hit.report_date)
    THEN strptime(hit.report_date)
    ELSE OldestKey

\* C7 as claimed: the returned list is sorted by report date descending, a
\* missing or unparseable date being ordered as the oldest possible date.
C7_SortedOldestLast ==
    sr.called =>
        \A i \in 1..Len(sr.value) :
            i < Len(sr.value) => ClaimedDateKey(sr.value[i]) >= ClaimedDateKey(sr.value[i + 1])

AllDatesParse(hits) == \A i \in 1..Len(hits) : Parseable(DateString(hits[i]))

\* C7 as amended: when the date of every result that passed the threshold
\* parses (a missing date counting as 1900-01-01), the returned list is sorted
\* by date descending; when one of them does not parse, nothing is sorted and
\* the results keep the order the Vector Index returned them in.
C7_SortedOrBackendOrder ==
    sr.called =>
        IF AllDatesParse(sr.value)
        THEN \A i \in 1..Len(sr.value) :
                i < Len(sr.value) => datekey(sr.value[i]) >= datekey(sr.value[i + 1])
        ELSE InOrderOf(sr.raw, sr.value)

\* the sort moved a result without a date ahead of an older one
C7_Witness ==
    /\ sr.called
    /\ Len(sr.value) >= 2
    /\ AllDatesParse(sr.value)
    /\ ~InOrderOf(sr.raw, sr.value)
    /\ \E i \in 1..Len(sr.value) : "report_date" \notin DOMAIN sr.value[i]

\* C8: Search never raises; it returns a list, and a failure of the store,
\* of the embedding or of the backend search gives the empty list.
C8_SearchNeverRaises ==
    sr.called =>
        /\ ~sr.raised
        /\ DOMAIN sr.value = 1..Len(sr.value)
        /\ (~sr.storeOk \/ sr.embedding = 0 \/ ~sr.backendOk) => sr.value = <<>>

\* obtaining the vector store raised while points were indexed
C8_Witness ==
    /\ sr.called
    /\ ~sr.storeOk
    /\ DOMAIN points # {}

\* C9: if the query embedding is empty, Search returns the empty list and
\* makes no call to the Vector Index search.
C9_EmptyEmbeddingNoBackendCall ==
    (sr.called /\ sr.embedding = 0) =>
        /\ sr.value = <<>>
        /\ ~sr.backendCalled

\* the embedding came back empty for a scope that has indexed points
C9_Witness ==
    /\ sr.called
    /\ sr.storeOk
    /\ sr.embedding = 0
    /\ \E id \in DOMAIN points : points[id].payload.employee_id = sr.employee_id

----------------------------------------------------------------------------
(* chunk_text                                                               *)

\* C10: every chunk chunk_text returns has at most max_chunk_size
\* characters; without a "." in the first max_chunk_size characters the cut
\* is at max_chunk_size.
C10_ChunkWithinMax ==
    ck.pc = "returned" =>
        \A i \in 1..Len(ck.chunks) : Len(ck.chunks[i]) <= ck.max

\* C11: every chunk chunk_text returns is non-empty after trimming, also
\* for a text that begins with or consists of whitespace.
C11_ChunksNonEmpty ==
    ck.pc = "returned" =>
        \A i \in 1..Len(ck.chunks) : strip(ck.chunks[i]) # <<>>

IsNonWhitespace(c) == c \notin Whitespace

NonWhitespace(s) == SelectSeq(s, IsNonWhitespace)

RECURSIVE Concat(_)
Concat(chunks) ==
    IF chunks = <<>> THEN <<>> ELSE Head(chunks) \o Concat(Tail(chunks))

\* T is the chunks in order with nothing but whitespace before, between and
\* after them
RECURSIVE Reconstructs(_, _)
Reconstructs(T, chunks) ==
    IF chunks = <<>> THEN \A i \in 1..Len(T) : T[i] \in Whitespace
    ELSE LET c == Head(chunks)
         IN  \E k \in 0..(Len(T) - Len(c)) :
                /\ \A i \in 1..k : T[i] \in Whitespace
                /\ SubSeq(T, k + 1, k + Len(c)) = c
                /\ Reconstructs(SubSeq(T, k + Len(c) + 1, Len(T)), Tail(chunks))

\* C12: the chunks chunk_text returns, concatenated in order, are the text
\* with only whitespace at the cuts removed: the non-whitespace characters
\* are those of the text, none dropped, duplicated or reordered.
C12_ChunksReconstructText ==
    (ck.pc = "returned" /\ ck.input # None) =>
        /\ NonWhitespace(Concat(ck.chunks)) = NonWhitespace(ck.input)
        /\ Reconstructs(ck.input, ck.chunks)

\* a text without outer whitespace was cut into several chunks and the
\* whitespace at a cut was trimmed
C12_Witness ==
    /\ ck.pc = "returned"
    /\ ck.input # None
    /\ Len(ck.chunks) >= 2
    /\ strip(ck.input) = ck.input
    /\ Len(Concat(ck.chunks)) < Len(ck.input)

\* C13: a text no longer than max_chunk_size gives exactly one chunk, the
\* text with leading and trailing whitespace trimmed; an empty or non-str
\* input gives the empty list.
C13_ShortTextOneTrimmedChunk ==
    ck.pc = "returned" =>
        IF ck.input = None \/ ck.input = <<>> THEN ck.chunks = <<>>
        ELSE Len(ck.input) <= ck.max => ck.chunks = <<strip(ck.input)>>

----------------------------------------------------------------------------
(* GetChunks                                                                *)

PointsOf(pts, report_id) ==
    {i \in DOMAIN pts : /\ "report_id" \in DOMAIN pts[i].payload
                        /\ pts[i].payload.report_id = report_id}

RowsOfReport(rows, report_id) == {r \in rows : r.report_id = report_id}

DocumentOf(report_id) == CHOOSE d \in Documents : d.report_id = report_id

\* the point ids the last add_report_to_vector_store call drew
IdsOfLastCall == (nextId - Len(ing.chunks))..(nextId - 1)

\* the last Ingest call was the only one for its document, and the embed,
\* upsert and mapping write of every chunk succeeded
IngestedOnceAllOk ==
    /\ ing.pc = "idle"
    /\ ing.setup = "ok"
    /\ ing.ret = "true"
    /\ PointsOf(ing.prePoints, ing.report_id) = {}
    /\ RowsOfReport(ing.preMappings, ing.report_id) = {}
    /\ \A id \in IdsOfLastCall : id \in okIds /\ id \in mappedIds

\* the last get_report_chunks call read the Mapping Store and the Vector
\* Index without a failure of either
ReadSucceeded ==
    /\ gc.called
    /\ gc.storeOk /\ gc.sessionOk /\ gc.queryOk
    /\ gc.down = {}

\* C14: after a document is ingested once with every chunk's embed, upsert
\* and mapping write succeeding, the Vector Index holds one point and the
\* Mapping Store one row per chunk of chunk_text(text), and a GetChunks of
\* the document that reads both stores returns chunk_text(text) in order.
C14_RoundTrip ==
    IngestedOnceAllOk =>
        LET expected == chunk_text(DocumentOf(ing.report_id).report_text, MaxChunkSize)
        IN  /\ Cardinality(PointsOf(points, ing.report_id)) = Len(expected)
            /\ Cardinality(RowsOfReport(mappings, ing.report_id)) = Len(expected)
            /\ (ReadSucceeded /\ gc.report_id = ing.report_id) => gc.value = expected

\* a document of two chunks went the round trip
C14_Witness ==
    /\ IngestedOnceAllOk
    /\ ReadSucceeded
    /\ gc.report_id = ing.report_id
    /\ Len(gc.value) >= 2

\* C15: GetChunks for a document_id that no report has, or that is malformed
\* so that the Mapping Store query fails, returns the empty list and does
\* not raise.
C15_UnknownOrMalformedGivesEmpty ==
    (gc.called /\ gc.report_id \in {UnknownReport, MalformedReport}) =>
        /\ ~gc.raised
        /\ gc.value = <<>>

\* the query failed on a malformed id while the Mapping Store held rows
C15_Witness ==
    /\ gc.called
    /\ gc.report_id = MalformedReport
    /\ gc.storeOk /\ gc.sessionOk
    /\ mappings # {}

\* the payload of the point can be retrieved from the Vector Index
Retrievable(id) ==
    /\ collection.exists
    /\ id \in DOMAIN points
    /\ id \notin gc.down

\* the texts of the retrievable points of rows, in the order of rows
RetrievableTexts(rows) ==
    LET F[i \in 0..Len(rows)] ==
            IF i = 0 THEN <<>>
            ELSE IF Retrievable(rows[i].qdrant_id)
                 THEN Append(F[i - 1], points[rows[i].qdrant_id].payload.text)
                 ELSE F[i - 1]
    IN  F[Len(rows)]

\* C16: a GetChunks that has read the Mapping Store returns the texts of the
\* document's mapped points in ascending chunk_index order, leaving out
\* exactly the points whose payload cannot be retrieved; it does not raise.
C16_PartialInChunkOrder ==
    (gc.called /\ gc.storeOk /\ gc.sessionOk /\ QueryAccepted(gc.report_id, gc.queryOk)) =>
        /\ ~gc.raised
        /\ {gc.rows[i] : i \in 1..Len(gc.rows)} = RowsOfReport(mappings, gc.report_id)
        /\ Len(gc.rows) = Cardinality(RowsOfReport(mappings, gc.report_id))
        /\ \A i, j \in 1..Len(gc.rows) :
              i < j => gc.rows[i].chunk_index <= gc.rows[j].chunk_index
        /\ gc.value = RetrievableTexts(gc.rows)

\* a document of two mapped chunks, one of whose points is gone from the
\* Vector Index: the other chunk is returned
C16_Witness ==
    /\ gc.called
    /\ Len(gc.rows) = 2
    /\ gc.rows[1].chunk_index < gc.rows[2].chunk_index
    /\ Len(gc.value) = 1
    /\ \E i \in 1..2 : gc.rows[i].qdrant_id \notin DOMAIN points

----------------------------------------------------------------------------
(* QdrantProvider lifecycle                                                 *)

\* C17: after a first successful construction, every later construction
\* request returns the same instance, bound to the first construction's
\* client, and opens no further backend client handle.
C17_LaterRequestsGetFirstClient ==
    \A t \in Threads :
        (ctor[t].late /\ ctor[t].outcome = "returned") =>
            /\ ctor[t].instance = 1
            /\ ctor[t].client = qp.first

OpenHandles == {h \in 1..Len(qp.opened) : h \notin qp.closed}

\* C18: once the instance has been finalised after any sequence of failed
\* and successful construction attempts, every client handle is closed and
\* the class is uninitialised again (client.close() itself not failing).
C18_FinalisationReleasesClient ==
    (qp.finalised /\ ~qp.closeRaised) =>
        /\ OpenHandles = {}
        /\ qp.client = 0
        /\ ~qp.initialized

----------------------------------------------------------------------------
(* setup_collection                                                         *)

Completed(call) == call.pc = "idle" /\ call.outcome # "none"

\* C19: a setup_collection call that follows a successful call with the same
\* vector size, and runs next to no other call, returns success too (unless
\* listing the collections fails), creates nothing and leaves the points of
\* the collection as they were; the collection is created at most once, and
\* a call that runs alone never meets an existing collection on create.
C19_SetupIdempotent ==
    /\ sh.creations <= 1
    /\ \A t \in Threads :
          (Completed(su[t]) /\ ~su[t].overlapped) =>
              /\ su[t].outcome # "conflict"
              /\ (/\ su[t].after.outcome = "true"
                  /\ su[t].after.vector_size = su[t].vector_size
                  /\ su[t].outcome # "list_failed") =>
                     /\ su[t].outcome = "true"
                     /\ ~su[t].created
                     /\ su[t].postPoints = su[t].prePoints

\* a second call with the same size succeeded on a collection holding points
C19_Witness ==
    \E t \in Threads :
        /\ Completed(su[t]) /\ ~su[t].overlapped
        /\ su[t].after.outcome = "true"
        /\ su[t].after.vector_size = su[t].vector_size
        /\ su[t].outcome = "true"
        /\ su[t].prePoints # <<>>
        /\ sh.creations = 1

\* both calls began before any call had completed, ran next to each other
\* and met no backend failure
RacedOnAbsentCollection ==
    \A t \in Threads :
        /\ Completed(su[t])
        /\ su[t].overlapped
        /\ su[t].after = NoCall
        /\ su[t].outcome \in {"true", "conflict"}

\* C20: when two setup_collection calls for the same, initially absent
\* collection run concurrently, both return success and exactly one
\* collection exists afterwards.
C20_ConcurrentSetupBothSucceed ==
    RacedOnAbsentCollection =>
        /\ \A t \in Threads : su[t].outcome = "true"
        /\ collection.exists
        /\ sh.creations = 1

----------------------------------------------------------------------------
(* Concurrent Ingest                                                        *)

\* add_report_to_vector_store run alone on the stores of state s with every
\* step succeeding: one point and one row per chunk
IngestAlone(s, doc) ==
    LET chunks == chunk_text(doc.report_text, MaxChunkSize)
        F[i \in 0..Len(chunks)] ==
            IF i = 0 THEN s
            ELSE LET before == F[i - 1]
                     call == [report_id |-> doc.report_id, employee_id |-> doc.employee_id,
                              report_date |-> doc.report_date, chunks |-> chunks,
                              idx |-> i - 1]
                     up == add_document(before.points, collection, before.nextId,
                                        collection.size, Payload(call), TRUE)
                     row == store_mapping(before.mappings, before.nextId, doc.report_id,
                                          i - 1, TRUE, TRUE)
                 IN  [points |-> up.points, mappings |-> row.mappings,
                      nextId |-> before.nextId + 1]
    IN  F[Len(chunks)]

\* the two calls run one after the other on empty stores
OneAfterTheOther(docA, docB) ==
    IngestAlone(IngestAlone([points |-> <<>>, mappings |-> {}, nextId |-> 1], docA), docB)

\* what the stores hold, the point ids (random values) left aside: every
\* point's vector and payload with the rows that name it
Content(pts, rows) ==
    {[vector |-> pts[i].vector, payload |-> pts[i].payload,
      rows |-> {[report_id |-> r.report_id, chunk_index |-> r.chunk_index] :
                   r \in {q \in rows : q.qdrant_id = i}}] : i \in DOMAIN pts}

SameStores(pts, rows, s) ==
    /\ Content(pts, rows) = Content(s.points, s.mappings)
    /\ Cardinality(DOMAIN pts) = Cardinality(DOMAIN s.points)
    /\ Cardinality(rows) = Cardinality(s.mappings)
    /\ \A r \in rows : r.qdrant_id \in DOMAIN pts

\* both calls have returned True, their documents differ and no step of
\* either failed
BothIngested ==
    /\ \A t \in Threads : /\ pr[t].pc = "idle"
                          /\ pr[t].ret = "true"
                          /\ pr[t].setup = "ok"
                          /\ pr[t].clean
    /\ pr[1].report_id # pr[2].report_id

\* C21: when two add_report_to_vector_store calls for different documents
\* have run concurrently with no step failing, in whatever interleaving, the
\* Vector Index and the Mapping Store hold what the two calls run one after
\* the other leave (point ids aside); and at every moment the two calls have
\* drawn different point ids and a point carries the payload of the call
\* that wrote it.
C21_ConcurrentIngestAsSequential ==
    /\ BothIngested =>
          SameStores(points, mappings,
                     OneAfterTheOther(DocumentOf(pr[1].report_id),
                                      DocumentOf(pr[2].report_id)))
    /\ pr[1].ids \cap pr[2].ids = {}
    /\ \A t \in Threads : \A id \in pr[t].ids :
          id \in DOMAIN points =>
              /\ points[id].payload.report_id = pr[t].report_id
              /\ points[id].payload.employee_id = pr[t].employee_id

\* the per-chunk steps of the two calls were interleaved: one call drew a
\* point id between two ids of the other
C21_Witness ==
    /\ BothIngested
    /\ \E t, u \in Threads :
          /\ t # u
          /\ \E i, k \in pr[t].ids : \E j \in pr[u].ids : i < j /\ j < k

\* C22: the probe string is embedded at most once per process: whatever
\* sequence of add_report_to_vector_store / setup_collection calls is made,
\* later calls reuse the embedding size obtained by the first.
C22_ProbeEmbeddedOnce ==
    probes <= 1

----------------------------------------------------------------------------
(* delete_document by filter                                                *)

InScope(pts, employee_id) ==
    {i \in DOMAIN pts : /\ "employee_id" \in DOMAIN pts[i].payload
                        /\ pts[i].payload.employee_id = employee_id}

\* C23: after delete_document with a filter on employee_id = X has returned
\* True, no point matches the filter, verify_deletion with the same filter
\* returns True (its count not failing), a Search for X returns the empty
\* list, and the points of other employees are still in the index.
C23_DeleteVerifySearch ==
    (dl.called /\ dl.ok) =>
        /\ InScope(points, dl.employee_id) = {}
        /\ (dl.verified # "none" /\ dl.countOk) => dl.verified = "true"
        /\ (sr.called /\ sr.employee_id = dl.employee_id) => sr.value = <<>>
        /\ \A i \in dl.others : i \in DOMAIN points

\* points of employee X were deleted next to points of another employee, the
\* deletion was verified and the Vector Index was searched for X
C23_Witness ==
    /\ dl.called /\ dl.ok
    /\ dl.deleted # {}
    /\ dl.others # {}
    /\ dl.verified = "true"
    /\ sr.called
    /\ sr.employee_id = dl.employee_id
    /\ sr.backendCalled /\ sr.backendOk

----------------------------------------------------------------------------
(* LLMService.generate_text                                                 *)

\* max_attempts as claimed: the retries argument if given, else max_retries
ClaimedMaxAttempts ==
    IF llm.retries # NoRetries THEN llm.retries ELSE llm.max_retries

\* C24: generate_text calls the provider until the first call that does not
\* raise and returns that call's result; it makes at most max_attempts calls
\* (the retries argument if given, else max_retries), and when every call
\* raises it returns the empty string after exactly max_attempts calls.
C24_RetryUntilSuccessOrMaxAttempts ==
    /\ llm.calls <= ClaimedMaxAttempts
    /\ llm.pc = "returned" =>
          IF llm.succeeded
          THEN /\ llm.result \in Responses
               /\ llm.attempts = llm.calls - 1
          ELSE /\ llm.result = ""
               /\ llm.calls = ClaimedMaxAttempts
               /\ llm.attempts = llm.calls

----------------------------------------------------------------------------
(* setup_collection: the dimensionality of an existing collection           *)

\* C25: whenever setup_collection(name, dim) has returned True, the
\* collection exists with dimensionality dim: an existing collection is
\* accepted only when its dimensionality is the one asked for.
C25_TrueMeansRequestedDimension ==
    \A t \in Threads :
        (Completed(su[t]) /\ su[t].outcome = "true") =>
            /\ collection.exists
            /\ collection.size = su[t].vector_size

----------------------------------------------------------------------------
(* QdrantProvider constructed by several threads at once                    *)

\* C26: however the construction requests of the threads interleave, at
\* most one backend client handle is opened, and the requests that returned
\* got the same instance, initialised with the same client.
C26_OneHandleForAllThreads ==
    /\ Len(qp.opened) <= 1
    /\ \A t, u \in Threads :
          (ctor[t].outcome = "returned" /\ ctor[u].outcome = "returned") =>
              /\ ctor[t].instance = ctor[u].instance
              /\ ctor[t].client = ctor[u].client

----------------------------------------------------------------------------
(* chunk_text: one iteration of the loop                                    *)

\* the first max_size characters of text hold a "."
HasDot(text, max_size) ==
    \E i \in 1..Min(max_size, Len(text)) : text[i] = "."

\* the position (from 1) of the last "." among the first max_size characters
LastDot(text, max_size) ==
    CHOOSE i \in 1..Min(max_size, Len(text)) :
        /\ text[i] = "."
        /\ \A j \in (i + 1)..Min(max_size, Len(text)) : text[j] # "."

\* C27: an iteration of chunk_text whose remaining text has a "." among its
\* first max_size characters emits the remaining text up to and including
\* the last such ".", trimmed, and the next iteration continues with what
\* follows that "." (trimmed in the same way): no character but whitespace is
\* skipped or repeated.
C27_CutAfterLastDot ==
    [][(/\ ck.pc = "loop"
        /\ ck'.iters = ck.iters + 1
        /\ HasDot(ck.text, ck.max)) =>
          LET d == LastDot(ck.text, ck.max)
          IN  /\ ck'.chunks = Append(ck.chunks, strip(SubSeq(ck.text, 1, d)))
              /\ ck'.text = strip(SubSeq(ck.text, d + 1, Len(ck.text)))]_vars

\* one iteration has cut at a "." that had another "." before it and a
\* character after it within the first max_size characters
C27_Witness ==
    /\ ck.pc \in {"loop", "returned"}
    /\ ck.input # None
    /\ ck.iters = 1
    /\ ~ck.noDot
    /\ Len(ck.chunks[1]) < ck.max
    /\ \E i \in 1..(Len(ck.chunks[1]) - 1) : ck.chunks[1][i] = "."

\* C28: chunk_text terminates: every iteration of its loop removes at least
\* one character from the remaining text, so the iterations made and the
\* characters left never add up to more than len(text), and the loop runs
\* at most len(text) times.
C28_LoopShortensText ==
    (ck.pc \in {"loop", "returned"} /\ ck.input # None) =>
        /\ ck.iters + Len(ck.text) <= Len(ck.input)
        /\ ck.iters <= Len(ck.input)

\* a call has returned after iterations that removed one character each
C28_Witness ==
    /\ ck.pc = "returned"
    /\ ck.input # None
    /\ ck.iters >= 2
    /\ ck.iters + Len(ck.text) = Len(ck.input)

----------------------------------------------------------------------------
(* Search: results of one date                                              *)

\* the place of a result in the list the Vector Index returned
PlaceInRaw(hit) == CHOOSE k \in 1..Len(sr.raw) : sr.raw[k].id = hit.id

\* C29: Search results that have equal report dates keep the relative order
\* in which the Vector Index returned them, which is by descending
\* similarity: within one date the more similar result comes first.
C29_TiesKeepBackendOrder ==
    sr.called =>
        \A i, j \in 1..Len(sr.value) :
            (i < j /\ DateString(sr.value[i]) = DateString(sr.value[j])) =>
                /\ PlaceInRaw(sr.value[i]) < PlaceInRaw(sr.value[j])
                /\ sr.value[i].score >= sr.value[j].score

\* two results of one date and different similarity were sorted and returned
C29_Witness ==
    /\ sr.called
    /\ Len(sr.value) >= 2
    /\ AllDatesParse(sr.value)
    /\ DateString(sr.value[1]) = DateString(sr.value[2])
    /\ sr.value[1].score > sr.value[2].score

----------------------------------------------------------------------------
(* delete_document and the Mapping Store                                    *)

\* a step that takes points out of the Vector Index
DeletionStep ==
    /\ DOMAIN points' # DOMAIN points
    /\ DOMAIN points' \subseteq DOMAIN points

\* delete_document changes the Vector Index only
DeletionFrame ==
    DeletionStep =>
        /\ mappings' = mappings
        /\ collection' = collection
        /\ nextId' = nextId
        /\ \A i \in DOMAIN points' : points'[i] = points[i]

\* the document has a Mapping row whose point is no longer in the index
HasDeletedPoint(report_id) ==
    \E r \in RowsOfReport(mappings, report_id) : r.qdrant_id \notin DOMAIN points

\* every mapped point of the document is gone from the index
AllPointsDeleted(report_id) ==
    /\ RowsOfReport(mappings, report_id) # {}
    /\ \A r \in RowsOfReport(mappings, report_id) : r.qdrant_id \notin DOMAIN points

\* the Mapping row written for a point is still there, whatever was deleted
MappedRowsRemain ==
    \A id \in mappedIds : Cardinality(RowsOf(id)) = 1

\* C30 as claimed: delete_document, by point id or by filter, changes only
\* the Vector Index; the Mapping rows of deleted points remain, and GetChunks
\* for a document of a deleted point returns the empty list and does not
\* fail.
C30_DeletedDocumentsGiveEmpty ==
    /\ [][DeletionFrame]_vars
    /\ [](MappedRowsRemain)
    /\ []((gc.called /\ HasDeletedPoint(gc.report_id)) =>
             /\ ~gc.raised
             /\ gc.value = <<>>)

\* C30 as amended: delete_document, by point id or by filter, changes only
\* the Vector Index; the Mapping rows of deleted points remain, and GetChunks
\* for a document of a deleted point does not fail: it returns the texts of
\* the document's points that can still be retrieved, in chunk order, which
\* is the empty list when all its points were deleted.
C30_DeletedPointsLeftOut ==
    /\ [][DeletionFrame]_vars
    /\ [](MappedRowsRemain)
    /\ []((gc.called /\ HasDeletedPoint(gc.report_id)) =>
             /\ ~gc.raised
             /\ AllPointsDeleted(gc.report_id) => gc.value = <<>>
             /\ (gc.storeOk /\ gc.sessionOk /\ gc.queryOk) =>
                   gc.value = RetrievableTexts(gc.rows))

\* the points of an employee were deleted by filter, their Mapping rows are
\* still there and GetChunks has read them for one of the documents
C30_Witness ==
    /\ dl.called /\ dl.ok
    /\ dl.deleted # {}
    /\ gc.called
    /\ gc.rows # <<>>
    /\ \A i \in 1..Len(gc.rows) : gc.rows[i].qdrant_id \in dl.deleted
    /\ gc.value = <<>>

====
